---- MODULE Spec2Model ----
(***************************************************************************)
(* Request dispatch of yt_dlp/networking/common.py: the RHManager that     *)
(* owns an ordered list of RequestHandler instances, normalises a Request  *)
(* and passes it to the handlers, most recently added first.               *)
(***************************************************************************)
EXTENDS Integers, Sequences, FiniteSets, TLC

\* ------------------------------------------------------------------ bounds

\* Longest handler list add_handler is allowed to build in the model.
MaxHandlers == 3

\* ------------------------------------------------------- optional values

\* Python's None, and a present value, as sequences of length 0 and 1.
None == <<>>

Some(x) == <<x>>

IsNone(o) == o = <<>>

\* ----------------------------------------------------- sequence helpers

Range(s) == {s[i] : i \in 1..Len(s)}

RECURSIVE Reverse(_)
Reverse(s) == IF s = <<>> THEN <<>> ELSE Append(Reverse(Tail(s)), Head(s))

\* ------------------------------------------------------ exception classes

\* The exceptions a handler's handle() raises in the model, by class name.
\* ValueError stands for any exception that is not a YoutubeDLError.
Exceptions ==
    {"YoutubeDLError", "RequestError", "UnsupportedRequest", "TransportError",
     "HTTPError", "ValueError", "TypeError"}

\* isinstance(e, RequestError): exceptions.py's class hierarchy.
IsRequestError(e) ==
    e \in {"RequestError", "UnsupportedRequest", "TransportError", "HTTPError"}

\* isinstance(e, YoutubeDLError): RequestError derives from YoutubeDLError.
IsYoutubeDLError(e) == e = "YoutubeDLError" \/ IsRequestError(e)

\* -------------------------------------------------------- handler classes

\* RequestHandler is the base class of common.py; A, B and F are subclasses
\* that only set SUPPORTED_SCHEMES and define handle().
HandlerClasses == {"RequestHandler", "A", "B", "F"}

\* The class attribute SUPPORTED_SCHEMES: None on the base class.
SUPPORTED_SCHEMES(cls) ==
    CASE cls = "RequestHandler" -> None
      [] cls = "A" -> Some({"http"})
      [] cls = "B" -> Some({"http", "https"})
      [] cls = "F" -> Some({"file"})

\* The handler instances that exist: b1 and b2 are two instances of B.
Handlers == {"a", "b1", "b2", "f", "n"}

ClassOf(h) ==
    CASE h = "a" -> "A"
      [] h \in {"b1", "b2"} -> "B"
      [] h = "f" -> "F"
      [] h = "n" -> "RequestHandler"

\* issubclass(sub, cls): every handler class derives from RequestHandler.
IsSubclass(sub, cls) == sub = cls \/ cls = "RequestHandler"

\* inspect.isclass(x), for x a handler instance or a handler class.
IsClass(x) == x \in HandlerClasses

\* isinstance(x, cls) for cls a handler class: a handler instance is an
\* instance of its class and of that class's bases; a class object is an
\* instance of type, and of no handler class.
IsInstance(x, cls) ==
    IF x \in Handlers THEN IsSubclass(ClassOf(x), cls) ELSE FALSE

\* ------------------------------------------------------------------ dicts

\* A Python dict is a function on its finite key set; {} is the empty one.
EmptyDict == <<>>

\* {**a, **b}: b's entries override a's.
DictMerge(a, b) ==
    [k \in DOMAIN a \cup DOMAIN b |-> IF k \in DOMAIN b THEN b[k] ELSE a[k]]

DictSet(d, k, v) == [x \in DOMAIN d \cup {k} |-> IF x = k THEN v ELSE d[x]]

DictDel(d, k) == [x \in DOMAIN d \ {k} |-> d[x]]

\* d.get(k), with None for a missing key.
DictGet(d, k) == IF k \in DOMAIN d THEN Some(d[k]) ELSE None

\* The capitalisation a header name is stored under: each word of the name
\* capitalised. The names of the model that are not listed are written that
\* way already.
Canon(k) ==
    CASE k \in {"x-test", "X-TEST"} -> "X-Test"
      [] k \in {"content-length", "CONTENT-LENGTH"} -> "Content-Length"
      [] OTHER -> k

\* The entries of d under the stored capitalisation of their names, for a d
\* that has no two names equal ignoring case.
CanonDict(d) ==
    [k \in {Canon(x) : x \in DOMAIN d} |->
        d[CHOOSE x \in DOMAIN d : Canon(x) = k]]

\* CaseInsensitiveDict(a, b): the entries of a, then those of b over them,
\* every name under its stored capitalisation.
CaseInsensitiveDict(a, b) == DictMerge(CanonDict(a), CanonDict(b))

\* --------------------------------------------------------------- requests

\* A URL is its scheme as written and its userinfo ("" when the netloc has
\* no user:password@ part); a protocol-relative URL (//host/...) has the
\* scheme "".
Lower(s) ==
    CASE s = "HTTPS" -> "https"
      [] s = "FILE" -> "file"
      [] OTHER -> s

\* sanitize_url: http: is put before a protocol-relative URL and the common
\* typos of a scheme are fixed.
sanitize_url(url) ==
    CASE url.scheme = "" -> [url EXCEPT !.scheme = "http"]
      [] url.scheme = "httpss" -> [url EXCEPT !.scheme = "https"]
      [] url.scheme = "rmtp" -> [url EXCEPT !.scheme = "rtmp"]
      [] OTHER -> url

\* escape_url: urlparse(url)._replace(...).geturl() lower-cases the scheme.
escape_url(url) == [url EXCEPT !.scheme = Lower(url.scheme)]

\* base64 of the userinfo, for the userinfo strings of the model.
BasicAuth(userinfo) ==
    CASE userinfo = "u:p" -> "Basic dTpw"
      [] userinfo = "u" -> "Basic dTo="

\* extract_basic_auth: the URL as given and None when it has no userinfo;
\* else the URL put together again from its parts without the userinfo,
\* which has the scheme in lower case as urlsplit gives it, and the
\* Authorization header value.
extract_basic_auth(url) ==
    IF url.userinfo = "" THEN [url |-> url, auth |-> None]
    ELSE [url |-> [url EXCEPT !.userinfo = "", !.scheme = Lower(@)],
          auth |-> Some(BasicAuth(url.userinfo))]

\* Request.__init__ keeping the headers in the plain dict it was given.
RequestInit_PlainHeaders(url, headers, proxies, compression, timeout) ==
    LET x == extract_basic_auth(escape_url(sanitize_url(url)))
    IN [url |-> x.url,
        headers |-> IF IsNone(x.auth) THEN headers
                    ELSE DictSet(headers, "Authorization", x.auth[1]),
        proxies |-> proxies,
        compression |-> compression,
        timeout |-> timeout]

\* Request.__init__(url, data, headers, proxies, compression, method,
\* timeout): the fields of the new Request.
RequestInit(url, headers, proxies, compression, timeout) ==
    LET x == extract_basic_auth(escape_url(sanitize_url(url)))
        h == CaseInsensitiveDict(EmptyDict, headers)
    IN [url |-> x.url,
        headers |-> IF IsNone(x.auth) THEN h
                    ELSE DictSet(h, "Authorization", x.auth[1]),
        proxies |-> proxies,
        compression |-> compression,
        timeout |-> timeout]

\* Request.copy(): a new Request from url, data, headers.copy(),
\* proxies.copy(), compression and method; timeout is not passed on.
RequestCopy(req) ==
    RequestInit(req.url, req.headers, req.proxies, req.compression, None)

\* urlparse(request.url).scheme.lower()
UrlScheme(req) == Lower(req.url.scheme)

\* ------------------------------------------------- director configuration

\* The socket timeout used when neither the request nor the configuration
\* gives one.
DefaultTimeout == 20

\* Python truth of an optional number: None and 0 are false.
TruthyNum(o) == ~IsNone(o) /\ o[1] # 0

\* Python truth of an optional string: None and "" are false.
TruthyStr(o) == ~IsNone(o) /\ o[1] # ""

\* RHManager.get_default_proxies: the environment's proxies, https taken
\* from http when only http is set, then the configured proxy over both.
get_default_proxies(env, conf_proxy) ==
    LET p1 == IF "http" \in DOMAIN env /\ "https" \notin DOMAIN env
              THEN DictSet(env, "https", env["http"]) ELSE env
    IN IF TruthyStr(conf_proxy)
       THEN DictMerge(p1, [k \in {"http", "https"} |-> Some(conf_proxy[1])])
       ELSE p1

\* The request's own proxies under the director's.
MergeProxies_DefaultsWin(defaultProxies, own) == DictMerge(own, defaultProxies)

\* {**(self.proxies or {}), **(req.proxies or {})}: the director's proxies
\* with the request's own over them.
MergeProxies(defaultProxies, own) == DictMerge(defaultProxies, own)

\* A urlopen that leaves "__noproxy__" in the proxies.
NoProxy_Kept(v) == v

\* `if v == '__noproxy__': req.proxies[k] = None`
NoProxy(v) == IF v = Some("__noproxy__") THEN None ELSE v

\* urlopen's preparation of the request, before the handler loop: the copy,
\* the default headers under the request's, the two signalling headers, the
\* proxy map and the timeout.
PrepareRequest(req, prm, defaultProxies) ==
    LET r0 == RequestCopy(req)
        h1 == CaseInsensitiveDict(prm.http_headers, r0.headers)
        nocomp == TruthyStr(DictGet(h1, "Youtubedl-no-compression"))
        h2 == IF nocomp THEN DictDel(h1, "Youtubedl-no-compression") ELSE h1
        p1 == MergeProxies(defaultProxies, r0.proxies)
        reqProxy == DictGet(h2, "Ytdl-request-proxy")
        h3 == IF TruthyStr(reqProxy) THEN DictDel(h2, "Ytdl-request-proxy") ELSE h2
        p2 == IF TruthyStr(reqProxy)
              THEN DictMerge(p1, [k \in {"http", "https"} |-> Some(reqProxy[1])])
              ELSE p1
        p3 == [k \in DOMAIN p2 |-> NoProxy(p2[k])]
        t == IF TruthyNum(r0.timeout) THEN r0.timeout[1]
             ELSE IF TruthyNum(prm.socket_timeout) THEN prm.socket_timeout[1]
             ELSE DefaultTimeout
    IN [url |-> r0.url,
        headers |-> h3,
        proxies |-> p3,
        compression |-> IF nocomp THEN FALSE ELSE r0.compression,
        timeout |-> Some(t)]

\* -------------------------------------------------------------- RHManager

\* A can_handle that accepts every request.
can_handle_Any(h, req) == "True"

\* RequestHandler._is_supported_scheme, which can_handle returns:
\* `scheme in cls.SUPPORTED_SCHEMES or []`. The membership test is made on
\* SUPPORTED_SCHEMES itself, so None raises TypeError; a scheme that is not
\* listed gives the empty list, which is false.
can_handle(h, req) ==
    LET s == SUPPORTED_SCHEMES(ClassOf(h))
    IN IF IsNone(s) THEN "TypeError"
       ELSE IF UrlScheme(req) \in s[1] THEN "True" ELSE "False"

\* add_handler without its membership test.
add_handler_Always(hs, handler) == Append(hs, handler)

\* RHManager.add_handler: appended unless already in the list.
add_handler(hs, handler) ==
    IF handler \in Range(hs) THEN hs ELSE Append(hs, handler)

\* remove_handler's finder: isinstance for a class, identity for an instance.
Finder(handler, x) ==
    IF IsClass(handler) THEN IsInstance(x, handler) ELSE x = handler

\* RHManager.remove_handler: `[x for x in self.handlers if not
\* finder(handler)]`. The finder is applied to the argument, not to the
\* list element x, so every element is kept or every element is dropped.
remove_handler(hs, handler) ==
    SelectSeq(hs, LAMBDA x : ~Finder(handler, handler))

\* urlopen without its check for an empty handler list.
NoHandlers_Never(hs) == FALSE

\* `if len(self.handlers) == 0`, urlopen's first statement.
NoHandlers(hs) == Len(hs) = 0

\* The handler loop in registration order.
HandlerOrder_Forward(hs) == hs

\* `for handler in reversed(self.handlers)`
HandlerOrder(hs) == Reverse(hs)

\* An except block that goes on to the next handler after a TransportError.
ExceptReraises_NotTransport(e) == e # "TransportError"

\* The except block of the handler loop. A warning is reported for an
\* exception that is not a YoutubeDLError; a RequestError gets the handler
\* as its handler attribute; the exception is then raised again, always.
ExceptWarns(e) == ~IsYoutubeDLError(e)

ExceptTagsHandler(e) == IsRequestError(e)

ExceptReraises(e) == TRUE

\* A loop that takes whatever handle() returned for a response.
EmptyResponse_Never(res) == FALSE

\* `if not res`
EmptyResponse(res) == res = "nothing"

\* The messages of the two errors urlopen raises itself, as the sequence of
\* their parts: each is one fixed text.
NoHandlersMsg == <<"No request handlers configured">>

NoSuitableMsg ==
    <<"No request handlers configured that could handle this request.">>

\* The message of an exception raised by a handler.
HandlerMsg == <<"raised by handler">>

\* The message of the TypeError of `scheme in None`.
TypeErrorMsg == <<"argument of type 'NoneType' is not iterable">>

\* What a handler's handle() does with a request: it returns a response,
\* returns nothing, or raises.
Behaviours ==
    {"response", "nothing", "UnsupportedRequest", "TransportError",
     "ValueError"}

\* A handle() that changes the Request it was given, a header and a proxy
\* entry of it, and returns nothing.
MutatingBehaviours == {"mutates"}

\* What handle() returns or raises.
HandleResult(did) == IF did \in MutatingBehaviours THEN "nothing" ELSE did

\* The Request object handle() was called with, after the call.
HandleEffect(did, req) ==
    IF did \in MutatingBehaviours
    THEN [req EXCEPT !.headers = DictSet(@, "X-Test", "handler"),
                     !.proxies = DictSet(@, "http", Some("http://handler"))]
    ELSE req

NoOutcome == [kind |-> "none", exc |-> "", msg |-> <<>>, handler |-> ""]

Raised(e, msg, handler) ==
    [kind |-> "error", exc |-> e, msg |-> msg, handler |-> handler]

Returned(handler) ==
    [kind |-> "response", exc |-> "", msg |-> <<>>, handler |-> handler]

\* What one urlopen call did: the request as urlopen prepared it (None
\* when the call ended before preparing it), the handlers whose can_handle
\* and whose handle were called, in order, the Request each handle() was
\* called with as it was at that call, the warnings and the debug lines
\* sent to the logger, the call's outcome, and the Request object the
\* handlers were given as the call left it.
NoTrace ==
    [seen |-> None, checked |-> <<>>, invoked |-> <<>>, received |-> <<>>,
     warnings |-> <<>>, stdout |-> <<>>, outcome |-> NoOutcome,
     object |-> None]

\* The handler loop of urlopen over the handlers still to try. req is the
\* one Request object of the loop: what a handle() did to it stays.
RECURSIVE HandlerLoop(_, _, _, _, _)
HandlerLoop(order, req, prm, beh, acc) ==
    IF order = <<>> THEN
        [acc EXCEPT !.outcome = Raised("YoutubeDLError", NoSuitableMsg, "")]
    ELSE
        LET handler == Head(order)
            can == can_handle(handler, req)
            acc1 == [acc EXCEPT !.checked = Append(@, handler)]
        IN IF can = "TypeError" THEN
               [acc1 EXCEPT !.outcome = Raised("TypeError", TypeErrorMsg, "")]
           ELSE IF can = "False" THEN
               HandlerLoop(Tail(order), req, prm, beh, acc1)
           ELSE
               LET res == HandleResult(beh[handler])
                   after == HandleEffect(beh[handler], req)
                   acc2 == [acc1 EXCEPT
                              !.invoked = Append(@, handler),
                              !.received = Append(@, req),
                              !.object = Some(after),
                              !.stdout = IF prm.debug_printtraffic
                                         THEN Append(@, <<"Forwarding request to", ClassOf(handler)>>)
                                         ELSE @]
               IN IF res \in Exceptions THEN
                      LET acc3 == IF ExceptWarns(res)
                                  THEN [acc2 EXCEPT !.warnings =
                                          Append(@, <<"Unexpected error from request handler", res>>)]
                                  ELSE acc2
                      IN IF ExceptReraises(res) THEN
                             [acc3 EXCEPT !.outcome =
                                Raised(res, HandlerMsg,
                                       IF ExceptTagsHandler(res) THEN handler ELSE "")]
                         ELSE HandlerLoop(Tail(order), after, prm, beh, acc3)
                  ELSE IF EmptyResponse(res) THEN
                      HandlerLoop(Tail(order), after, prm, beh,
                                  [acc2 EXCEPT !.warnings =
                                     Append(@, <<"request handler returned nothing for response",
                                                 ClassOf(handler)>>)])
                  ELSE [acc2 EXCEPT !.outcome = Returned(handler)]

\* The argument of urlopen: a URL string, which urlopen makes a Request of,
\* or a Request.
CoerceRequest(arg) ==
    IF arg.isStr
    THEN RequestInit(arg.req.url, EmptyDict, EmptyDict, TRUE, None)
    ELSE arg.req

\* RHManager.urlopen, given what each handler does when asked.
urlopen(hs, arg, prm, defaultProxies, beh) ==
    IF NoHandlers(hs) THEN
        [NoTrace EXCEPT !.outcome = Raised("YoutubeDLError", NoHandlersMsg, "")]
    ELSE
        LET req == PrepareRequest(CoerceRequest(arg), prm, defaultProxies)
        IN HandlerLoop(HandlerOrder(hs), req, prm, beh,
                       [NoTrace EXCEPT !.seen = Some(req), !.object = Some(req)])

\* ------------------------------------------------------------------ state

VARIABLES
    handlers,   \* RHManager.handlers, in registration order
    params,     \* ydl.params, the configuration the director reads
    proxies,    \* RHManager.proxies, set by get_default_proxies at construction
    environ,    \* the proxies of the environment, urllib.request.getproxies()
    call,       \* the last operation on the director, its inputs and what it did
    heap,       \* the dict objects of the Requests, by identity
    reqs,       \* the Request objects, in order of creation
    jar,        \* the cookies of a YoutubeDLCookieJar
    cookiefile, \* the lines of the cookie file
    jop         \* the last operation on the jar, its inputs and what it did

\* The director, the Request objects with their dicts, and the cookie jar
\* with its file.
dirVars == <<handlers, params, proxies, environ, call>>
reqVars == <<heap, reqs>>
jarVars == <<jar, cookiefile, jop>>

vars == <<dirVars, reqVars, jarVars>>

\* No Request object has been made.
NoRequests == heap = <<>> /\ reqs = <<>>

\* No cookie jar has been made.
NoJar == jar = <<>> /\ cookiefile = <<>> /\ jop = <<>>

\* The configurations the director is constructed with: ydl.params and the
\* proxies of the environment (urllib.request.getproxies()).
Configs ==
    {[params |-> [http_headers |-> EmptyDict, socket_timeout |-> None,
                  proxy |-> None, debug_printtraffic |-> FALSE],
      env |-> EmptyDict],
     [params |-> [http_headers |-> [k \in {"User-Agent"} |-> "UA"],
                  socket_timeout |-> Some(5),
                  proxy |-> Some("http://conf"), debug_printtraffic |-> TRUE],
      env |-> [k \in {"http"} |-> Some("http://env")]]}

\* The URL strings given to urlopen.
Url(scheme, userinfo) == [scheme |-> scheme, userinfo |-> userinfo]

StrUrls == {Url(s, "") : s \in {"http", "https", "ftp", "file"}}

StrArg(u) ==
    [isStr |-> TRUE,
     req |-> [url |-> u, headers |-> EmptyDict, proxies |-> EmptyDict,
              compression |-> TRUE, timeout |-> None]]

\* The Request objects given to urlopen, as their constructor made them.
RequestArgs ==
    {[isStr |-> FALSE,
      req |-> RequestInit(Url("HTTPS", "u:p"),
                          [k \in {"Youtubedl-no-compression", "Ytdl-request-proxy"} |->
                             IF k = "Ytdl-request-proxy" THEN "http://hdr" ELSE "1"],
                          [k \in {"ftp"} |-> Some("__noproxy__")],
                          TRUE, Some(7))]}

UrlopenArgs == {StrArg(u) : u \in StrUrls} \cup RequestArgs

NoArg == StrArg(Url("", ""))

NoCall ==
    [op |-> "none", arg |-> "", pre |-> <<>>, req |-> NoArg, beh |-> EmptyDict,
     trace |-> NoTrace]

Init ==
    /\ handlers = <<>>
    /\ \E c \in Configs :
          /\ params = c.params
          /\ environ = c.env
          /\ proxies = get_default_proxies(c.env, c.params.proxy)
    /\ call = NoCall
    /\ NoRequests /\ NoJar

\* manager.add_handler(handler)
AddHandler(handler) ==
    /\ handler \in Range(handlers) \/ Len(handlers) < MaxHandlers
    /\ handlers' = add_handler(handlers, handler)
    /\ call' = [NoCall EXCEPT !.op = "add_handler", !.arg = handler,
                              !.pre = handlers]
    /\ UNCHANGED <<params, proxies, environ, reqVars, jarVars>>

\* manager.remove_handler(handler), with a handler instance or a class
RemoveHandler(handler) ==
    /\ handlers' = remove_handler(handlers, handler)
    /\ call' = [NoCall EXCEPT !.op = "remove_handler", !.arg = handler,
                              !.pre = handlers]
    /\ UNCHANGED <<params, proxies, environ, reqVars, jarVars>>

\* The handlers of the list whose handle() the request can reach.
Capable(hs, arg) ==
    LET req == PrepareRequest(CoerceRequest(arg), params, proxies)
    IN {h \in Range(hs) : can_handle(h, req) = "True"}

\* manager.urlopen(req), each capable handler behaving as beh says
Urlopen(arg, beh) ==
    /\ call' = [op |-> "urlopen", arg |-> "", pre |-> handlers, req |-> arg,
                beh |-> beh,
                trace |-> urlopen(handlers, arg, params, proxies, beh)]
    /\ UNCHANGED <<handlers, params, proxies, environ, reqVars, jarVars>>

Next ==
    \/ \E handler \in Handlers : AddHandler(handler)
    \/ \E handler \in Handlers \cup HandlerClasses : RemoveHandler(handler)
    \/ \E arg \in UrlopenArgs :
          \E beh \in [Capable(handlers, arg) -> Behaviours] : Urlopen(arg, beh)

Spec == Init /\ [][Next]_vars

\* ----------------------------------------------------------- properties

\* No element occurs twice in s.
NoDuplicates(s) == \A i, j \in 1..Len(s) : i # j => s[i] # s[j]

\* The subsequence of s of its elements that are in keep.
RECURSIVE Filter(_, _)
Filter(s, keep) ==
    IF s = <<>> THEN <<>>
    ELSE IF Head(s) \in keep THEN <<Head(s)>> \o Filter(Tail(s), keep)
    ELSE Filter(Tail(s), keep)

\* The last operation was a urlopen call that got as far as the handlers.
Dispatched == call.op = "urlopen" /\ ~IsNone(call.trace.seen)

\* Position of handler h in the list the call started with.
Pos(h) == CHOOSE i \in 1..Len(call.pre) : call.pre[i] = h

\* In the last urlopen call, handler h accepts the request.
Accepts(h) == can_handle(h, call.trace.seen[1]) = "True"

\* In the last urlopen call, handler h accepts the request and its handle()
\* does `what` when called.
Does(h, what) == Accepts(h) /\ call.beh[h] = what

\* g is the handler tried right after h: every handler between them in
\* the dispatch order turns the request down.
TriedNextAfter(h, g) ==
    /\ Pos(g) < Pos(h)
    /\ \A k \in (Pos(g) + 1)..(Pos(h) - 1) :
          can_handle(call.pre[k], call.trace.seen[1]) = "False"

\* C1: urlopen asks the handlers in reverse registration order; a returned
\* response is that of the most recently added handler that accepts the
\* request and returns a response, and no handler registered before it is
\* invoked. With [A, B] registered and an https request, A is never
\* invoked and B's response is the result.
C1_ReverseOrderFirstResponse ==
    Dispatched =>
        LET t == call.trace
            pre == call.pre
        IN /\ t.checked = SubSeq(Reverse(pre), 1, Len(t.checked))
           /\ t.outcome.kind = "response" =>
                 LET h == t.outcome.handler
                 IN /\ h \in Range(pre) /\ Does(h, "response")
                    /\ \A j \in (Pos(h) + 1)..Len(pre) : ~Does(pre[j], "response")
                    /\ \A j \in 1..(Pos(h) - 1) : pre[j] \notin Range(t.invoked)
           /\ (/\ Len(pre) = 2
               /\ ClassOf(pre[1]) = "A" /\ ClassOf(pre[2]) = "B"
               /\ UrlScheme(t.seen[1]) = "https") =>
                 /\ pre[1] \notin Range(t.invoked)
                 /\ call.beh[pre[2]] = "response" => t.outcome = Returned(pre[2])

C1_Witness ==
    /\ Dispatched
    /\ call.pre = <<"a", "b1">>
    /\ UrlScheme(call.trace.seen[1]) = "https"
    /\ call.trace.outcome = Returned("b1")
    /\ call.trace.invoked = <<"b1">>

\* C2: a handler whose handle() raises UnsupportedRequest does not end the
\* call: the handler tried next returns its response to the caller if it
\* has one, and the caller sees UnsupportedRequest only when every handler
\* was tried.
C2_UnsupportedFallsThrough ==
    Dispatched =>
        LET t == call.trace
        IN /\ t.outcome.exc = "UnsupportedRequest" => Len(t.checked) = Len(call.pre)
           /\ \A h, g \in Range(call.pre) :
                 (/\ h \in Range(t.invoked) /\ Does(h, "UnsupportedRequest")
                  /\ TriedNextAfter(h, g) /\ Does(g, "response"))
                 => t.outcome = Returned(g)

\* C3: a TransportError (a RequestError other than UnsupportedRequest)
\* raised by a handler's handle() is the outcome of the call, carrying that
\* handler, and no handler after it in the dispatch order is asked.
C3_TransportErrorAborts ==
    Dispatched =>
        LET t == call.trace
        IN \A i \in 1..Len(t.invoked) :
              Does(t.invoked[i], "TransportError") =>
                 /\ t.outcome = Raised("TransportError", HandlerMsg, t.invoked[i])
                 /\ i = Len(t.invoked)
                 /\ t.checked[Len(t.checked)] = t.invoked[i]

C3_Witness ==
    /\ Dispatched
    /\ Len(call.pre) >= 2
    /\ Does(call.pre[Len(call.pre)], "TransportError")
    /\ Does(call.pre[1], "response")
    /\ call.trace.outcome.exc = "TransportError"
    /\ call.trace.invoked = <<call.pre[Len(call.pre)]>>

\* C4: with no handler registered urlopen raises 'No request handlers
\* configured' before it makes or prepares a request, and asks no handler.
C4_NoHandlersConfigured ==
    (call.op = "urlopen" /\ call.pre = <<>>) =>
        /\ call.trace.outcome = Raised("YoutubeDLError", NoHandlersMsg, "")
        /\ IsNone(call.trace.seen)
        /\ call.trace.checked = <<>>
        /\ call.trace.invoked = <<>>

C4_Witness ==
    /\ call.op = "urlopen" /\ call.pre = <<>>
    /\ call.trace.outcome.kind = "error"

\* C5: when every handler was tried without a response, the error's message
\* names the handlers that turned the request down, grouped by reason, and
\* ends with the number of unexpected errors.
C5_AggregateErrorNamesHandlers ==
    (/\ Dispatched
     /\ call.trace.outcome.kind = "error"
     /\ call.trace.outcome.exc = "YoutubeDLError"
     /\ Len(call.trace.checked) = Len(call.pre)) =>
        /\ \A h \in Range(call.trace.checked) \ Range(call.trace.invoked) :
              ClassOf(h) \in Range(call.trace.outcome.msg)
        /\ Len(call.trace.outcome.msg) >= 2

\* C6: a request with the file scheme never reaches a handler's handle(),
\* whatever the handlers' SUPPORTED_SCHEMES; the call ends with an error.
C6_FileSchemeNeverDispatched ==
    (Dispatched /\ UrlScheme(call.trace.seen[1]) = "file") =>
        /\ call.trace.invoked = <<>>
        /\ call.trace.outcome.kind = "error"

\* C7: an exception from handle() that is not a YoutubeDLError is logged as
\* a warning and the call goes on with the next handler: the exception is
\* not the call's outcome, and the handler tried next returns its response
\* if it has one.
C7_UnexpectedErrorFallsThrough ==
    Dispatched =>
        LET t == call.trace
        IN \A h \in Range(t.invoked) :
              Does(h, "ValueError") =>
                 /\ <<"Unexpected error from request handler", "ValueError">>
                       \in Range(t.warnings)
                 /\ t.outcome.exc # "ValueError"
                 /\ \A g \in Range(call.pre) :
                       (TriedNextAfter(h, g) /\ Does(g, "response"))
                       => t.outcome = Returned(g)

\* C8: the handler list never holds a handler twice, and add_handler of a
\* registered handler leaves the list as it was.
C8_HandlersUnique ==
    /\ NoDuplicates(handlers)
    /\ (call.op = "add_handler" /\ call.arg \in Range(call.pre)) =>
          handlers = call.pre

C8_Witness ==
    /\ call.op = "add_handler"
    /\ Len(call.pre) >= 2
    /\ call.arg = call.pre[1]

\* C9: remove_handler with a handler instance removes that instance and
\* keeps every other handler, in order.
C9_RemoveInstance ==
    (call.op = "remove_handler" /\ call.arg \in Handlers) =>
        handlers = Filter(call.pre, Range(call.pre) \ {call.arg})

\* C10: remove_handler with a class removes the registered instances of
\* that class and no others; urlopen invokes registered handlers only, so
\* none of the removed ones is invoked afterwards.
C10_RemoveClass ==
    /\ (call.op = "remove_handler" /\ call.arg \in HandlerClasses) =>
          handlers = Filter(call.pre,
                            {h \in Range(call.pre) : ~IsInstance(h, call.arg)})
    /\ call.op = "urlopen" => Range(call.trace.invoked) \subseteq Range(handlers)

\* ------------------------------------------------------- Request objects

\* The most Request objects alive at once.
MaxRequests == 2

\* The most header dicts a caller makes to assign them to a Request.
MaxAssigned == 1

\* Request.add_header: self._headers[key] = value, the key under its stored
\* capitalisation.
add_header(hdrs, key, value) == DictSet(hdrs, Canon(key), value)

\* Request.get_header: self._headers.get(key), the key looked up under its
\* stored capitalisation.
get_header(hdrs, key) == DictGet(hdrs, Canon(key))

\* update_url_query(url, query) for an empty query: the url as given.
update_url_query(url) == url

\* The headers and the proxies of Request object i, read through its fields.
Hdr(i) == heap[reqs[i].headers]
Prx(i) == heap[reqs[i].proxies]

\* The fields of Request object i that Request.__init__ takes.
ValueOf(i) ==
    [url |-> reqs[i].url, headers |-> Hdr(i), proxies |-> Prx(i),
     compression |-> reqs[i].compression, timeout |-> reqs[i].timeout]

\* copy() handing its own proxies dict to the constructor.
CopyProxiesArg_Shared(own, fresh) == own

\* The proxies argument copy() hands to the constructor: self.proxies.copy(),
\* a new dict.
CopyProxiesArg(own, fresh) == fresh

\* `self.proxies = proxies or {}`: the dict given when it has entries, a new
\* one otherwise.
InitProxiesRef(h, given, fresh) ==
    IF h[given] # EmptyDict THEN given ELSE fresh

\* The heap and the Request objects after Request.__init__ has made one
\* more: its CaseInsensitiveDict of headers is a new object, its proxies
\* dict is the one it was given (at index given, 0 for a dict of the
\* caller's own) or a new one.
NewRequest(v, data, given, origin) ==
    LET n == Len(heap)
        h == heap \o <<v.headers, v.proxies>>
    IN [heap |-> h,
        reqs |-> Append(reqs,
            [url |-> v.url, data |-> data, headers |-> n + 1,
             proxies |-> IF given = 0 THEN n + 2
                         ELSE InitProxiesRef(h, given, n + 2),
             compression |-> v.compression, timeout |-> v.timeout,
             store_headers |-> EmptyDict, copyOf |-> origin])]

\* Request.copy() of object i.
CopyOf(i) ==
    NewRequest(RequestCopy(ValueOf(i)), reqs[i].data,
               CopyProxiesArg(reqs[i].proxies, Len(heap) + 2), i)

\* The data setter: the urllib Request inside takes the data and, when it
\* differs from what it had, drops the Content-length header of its own
\* header dict. Request._headers is not touched.
SetData(r, data) ==
    [r EXCEPT !.data = data,
              !.store_headers = IF data # r.data
                                THEN DictDel(@, "Content-length") ELSE @]

\* The url setter: the urllib Request inside takes the url as given.
SetUrl(r, url) == [r EXCEPT !.url = url]

\* Request(url, data, headers, proxies, timeout=timeout)
ReqConstruct(url, data, headers, prx, timeout) ==
    /\ Len(reqs) < MaxRequests
    /\ LET new == NewRequest(RequestInit(url, headers, prx, TRUE, timeout),
                             data, 0, 0)
       IN heap' = new.heap /\ reqs' = new.reqs
    /\ UNCHANGED <<dirVars, jarVars>>

\* reqs[i].copy()
ReqCopy(i) ==
    /\ Len(reqs) < MaxRequests
    /\ heap' = CopyOf(i).heap
    /\ reqs' = CopyOf(i).reqs
    /\ UNCHANGED <<dirVars, jarVars>>

\* The headers setter: TypeError for a value that is not a
\* CaseInsensitiveDict, the Request staying as it was; else the Request
\* holds the dict it was given.
SetHeaders(r, isCaseInsensitiveDict, ref) ==
    IF isCaseInsensitiveDict THEN [r EXCEPT !.headers = ref] ELSE r

\* reqs[i].headers = reqs[j].headers: both hold the one dict
ReqSetHeadersOf(i, j) ==
    /\ reqs' = [reqs EXCEPT ![i] = SetHeaders(@, TRUE, reqs[j].headers)]
    /\ UNCHANGED <<heap, dirVars, jarVars>>

\* reqs[i].headers = new_headers, for a CaseInsensitiveDict the caller has
\* made of a dict (the new dict is then one more object) or for the plain
\* dict itself
ReqSetHeaders(i, headers, isCaseInsensitiveDict) ==
    /\ isCaseInsensitiveDict => Len(heap) < 2 * Len(reqs) + MaxAssigned
    /\ heap' = IF isCaseInsensitiveDict
               THEN Append(heap, CaseInsensitiveDict(EmptyDict, headers))
               ELSE heap
    /\ reqs' = [reqs EXCEPT ![i] =
                   SetHeaders(@, isCaseInsensitiveDict, Len(heap) + 1)]
    /\ UNCHANGED <<dirVars, jarVars>>

\* reqs[i].add_header(key, value)
ReqAddHeader(i, key, value) ==
    /\ heap' = [heap EXCEPT ![reqs[i].headers] = add_header(@, key, value)]
    /\ UNCHANGED <<reqs, dirVars, jarVars>>

\* del reqs[i].headers[key], for a header that is there
ReqDelHeader(i, key) ==
    /\ ~IsNone(get_header(Hdr(i), key))
    /\ heap' = [heap EXCEPT ![reqs[i].headers] = DictDel(@, Canon(key))]
    /\ UNCHANGED <<reqs, dirVars, jarVars>>

\* reqs[i].proxies[scheme] = proxy
ReqSetProxy(i, scheme, proxy) ==
    /\ heap' = [heap EXCEPT ![reqs[i].proxies] = DictSet(@, scheme, proxy)]
    /\ UNCHANGED <<reqs, dirVars, jarVars>>

\* del reqs[i].proxies[scheme], for a scheme that is there
ReqDelProxy(i, scheme) ==
    /\ scheme \in DOMAIN Prx(i)
    /\ heap' = [heap EXCEPT ![reqs[i].proxies] = DictDel(@, scheme)]
    /\ UNCHANGED <<reqs, dirVars, jarVars>>

\* reqs[i].data = data
ReqSetData(i, data) ==
    /\ reqs' = [reqs EXCEPT ![i] = SetData(@, data)]
    /\ UNCHANGED <<heap, dirVars, jarVars>>

\* reqs[i].url = url
ReqSetUrl(i, url) ==
    /\ reqs' = [reqs EXCEPT ![i] = SetUrl(@, url)]
    /\ UNCHANGED <<heap, dirVars, jarVars>>

\* update_YDLRequest(reqs[i], url, data, headers), without a query: the
\* copy, then its data, its headers and its url are set.
ReqUpdate(i, url, data, headers) ==
    /\ Len(reqs) < MaxRequests
    /\ LET c == CopyOf(i)
           n == Len(c.reqs)
           r == c.reqs[n]
           d == IF TruthyStr(data) THEN data ELSE r.data
           u == update_url_query(IF IsNone(url) THEN r.url ELSE url[1])
       IN /\ heap' = [c.heap EXCEPT ![r.headers] = CaseInsensitiveDict(@, headers)]
          /\ reqs' = [c.reqs EXCEPT ![n] = SetUrl(SetData(r, d), u)]
    /\ UNCHANGED <<dirVars, jarVars>>

\* The director is not in use.
NoDirector ==
    /\ handlers = <<>> /\ params = <<>> /\ proxies = <<>> /\ environ = <<>>
    /\ call = <<>>

InitReq == NoDirector /\ NoJar /\ NoRequests

\* The same header name in three capitalisations.
HeaderSpellings == {"X-Test", "x-test", "X-TEST"}

\* Requests made, copied, their headers and proxies changed in place, a
\* clone given the headers dict of its original, and the first Request
\* given a dict of the caller's.
NextReq ==
    \/ \E headers \in {EmptyDict, [k \in {"x-test"} |-> "1"]},
          prx \in {EmptyDict, [k \in {"http"} |-> Some("http://p1")]} :
          ReqConstruct(Url("http", ""), None, headers, prx, None)
    \/ \E i \in DOMAIN reqs : ReqCopy(i)
    \/ \E i \in DOMAIN reqs, key \in HeaderSpellings, value \in {"1", "2"} :
          ReqAddHeader(i, key, value)
    \/ \E i \in DOMAIN reqs, key \in HeaderSpellings : ReqDelHeader(i, key)
    \/ \E i \in DOMAIN reqs : ReqSetProxy(i, "http", Some("http://p1"))
    \/ \E i \in DOMAIN reqs : ReqDelProxy(i, "http")
    \/ \E i \in DOMAIN reqs :
          reqs[i].copyOf # 0 /\ ReqSetHeadersOf(i, reqs[i].copyOf)
    \/ \E isCaseInsensitiveDict \in BOOLEAN :
          /\ reqs # <<>>
          /\ ReqSetHeaders(1, [k \in {"x-test"} |-> "2"], isCaseInsensitiveDict)

SpecReq == InitReq /\ [][NextReq]_vars

\* Requests made with credentials in the url and a Content-Length header,
\* copied, updated, and their data, url and headers assigned.
NextReqData ==
    \/ \E url \in {Url("http", ""), Url("HTTPS", "u:p")},
          data \in {None, Some("d1")},
          headers \in {EmptyDict, [k \in {"Content-Length"} |-> "2"]} :
          ReqConstruct(url, data, headers, EmptyDict, None)
    \/ \E i \in DOMAIN reqs : ReqCopy(i)
    \/ \E i \in DOMAIN reqs, data \in {None, Some("d1"), Some("d2")} :
          ReqSetData(i, data)
    \/ \E i \in DOMAIN reqs, url \in {Url("http", ""), Url("http", "u:p")} :
          ReqSetUrl(i, url)
    \/ \E i \in DOMAIN reqs,
          url \in {None, Some(Url("http", "u:p"))},
          data \in {None, Some(""), Some("d2")},
          headers \in {EmptyDict, [k \in {"content-length"} |-> "2"]} :
          ReqUpdate(i, url, data, headers)
    \/ \E i \in DOMAIN reqs :
          reqs[i].copyOf # 0 /\ ReqSetHeadersOf(i, reqs[i].copyOf)
    \/ \E isCaseInsensitiveDict \in BOOLEAN :
          /\ reqs # <<>>
          /\ ReqSetHeaders(1, [k \in {"Content-Length"} |-> "2"], isCaseInsensitiveDict)

SpecReqData == InitReq /\ [][NextReqData]_vars

\* C11: Request.copy() returns a structurally independent clone: a change
\* of the headers or the proxies of the clone leaves the headers and the
\* proxies of the original as they were, and a change of the original's
\* leaves the clone's as they were. This is of a clone and an original
\* neither of which has since been assigned the headers dict of the other.
C11_CopyIndependent ==
    [][\A o, c \in DOMAIN reqs :
          (reqs[c].copyOf = o /\ reqs[c].headers # reqs[o].headers) =>
             /\ (Hdr(c)' # Hdr(c) \/ Prx(c)' # Prx(c))
                   => (Hdr(o)' = Hdr(o) /\ Prx(o)' = Prx(o))
             /\ (Hdr(o)' # Hdr(o) \/ Prx(o)' # Prx(o))
                   => (Hdr(c)' = Hdr(c) /\ Prx(c)' = Prx(c))]_vars

\* A clone of a Request that has a proxy and a header: since the copy the
\* proxy was taken off the clone and the header changed on one side, each
\* side holding its own dicts.
C11_Witness ==
    \E o, c \in DOMAIN reqs :
        /\ reqs[c].copyOf = o
        /\ reqs[c].headers # reqs[o].headers
        /\ reqs[c].proxies # reqs[o].proxies
        /\ Prx(o) # EmptyDict /\ Prx(c) = EmptyDict
        /\ Hdr(o) # EmptyDict /\ Hdr(c) # EmptyDict /\ Hdr(o) # Hdr(c)

\* C12: for a Request that has a Content-Length header, assigning a new
\* value to its data removes the Content-Length header from its headers.
C12_DataAssignmentDropsContentLength ==
    [][\A i \in DOMAIN reqs :
          (reqs'[i].data # reqs[i].data /\ "Content-Length" \in DOMAIN Hdr(i))
             => "Content-Length" \notin DOMAIN Hdr(i)']_vars

\* C13: header lookup is case-insensitive, for every constructed Request and
\* after any sequence of add_header calls: a header added under one
\* capitalisation is returned by get_header under any other, and the header
\* mapping never holds two keys that are equal ignoring case.
C13_HeadersCaseInsensitive ==
    \A i \in DOMAIN reqs :
        /\ \A k1, k2 \in DOMAIN Hdr(i) : Canon(k1) = Canon(k2) => k1 = k2
        /\ \A k1, k2 \in HeaderSpellings :
              get_header(Hdr(i), k1) = get_header(Hdr(i), k2)
        /\ \A k \in DOMAIN Hdr(i), s \in HeaderSpellings :
              Canon(s) = Canon(k) => get_header(Hdr(i), s) = Some(Hdr(i)[k])

\* A Request constructed with the header in lower case and given it again,
\* with another value, in upper case.
C13_Witness ==
    \E i \in DOMAIN reqs :
        /\ reqs[i].copyOf = 0
        /\ get_header(Hdr(i), "x-test") = Some("2")
        /\ get_header(Hdr(i), "X-TEST") = Some("2")

\* C14: in every reachable state of a Request (after construction, after
\* an assignment to its url, after copy() and after update_YDLRequest with
\* a new url) its url contains no userinfo.
C14_UrlHasNoUserinfo == \A i \in DOMAIN reqs : reqs[i].url.userinfo = ""

\* ------------------------------------------- what urlopen makes of a request

\* The configurations of a director: every socket_timeout and proxy option
\* with every environment.
PrepConfigs ==
    {[params |-> [http_headers |-> EmptyDict, socket_timeout |-> t,
                  proxy |-> p, debug_printtraffic |-> FALSE],
      env |-> [k \in ks |-> Some("http://env-" \o k)]] :
        t \in {None, Some(0), Some(5), Some(-3)},
        p \in {None, Some(""), Some("http://conf")},
        ks \in SUBSET {"http", "https"}}

\* The Requests given to urlopen: every timeout with every per-request proxy
\* header and every proxies dict of the request's own.
PrepArgs ==
    {[isStr |-> FALSE,
      req |-> RequestInit(Url("http", ""), h, p, TRUE, t)] :
        h \in {EmptyDict} \cup
              {[k \in {"Ytdl-request-proxy"} |-> v] :
                  v \in {"", "http://hdr", "__noproxy__"}},
        p \in {EmptyDict,
               [k \in {"http"} |-> Some("http://own")],
               [k \in {"http"} |-> Some("__noproxy__")],
               [k \in {"https"} |-> None]},
        t \in {None, Some(0), Some(7), Some(-1)}}
    \cup {StrArg(Url("http", ""))}

\* A director with one handler, for http and https.
InitPrepare ==
    /\ handlers = <<"b1">>
    /\ \E c \in PrepConfigs :
          /\ params = c.params
          /\ environ = c.env
          /\ proxies = get_default_proxies(c.env, c.params.proxy)
    /\ call = NoCall
    /\ NoRequests /\ NoJar

\* urlopen of each request, the handler answering.
NextPrepare ==
    \E arg \in PrepArgs :
        Urlopen(arg, [h \in Capable(handlers, arg) |-> "response"])

SpecPrepare == InitPrepare /\ [][NextPrepare]_vars

\* C15: every request that urlopen passes to a handler has a timeout
\* greater than zero, for every combination of request timeout and
\* configured socket_timeout (absent, zero, positive or negative).
C15_TimeoutPositive ==
    Dispatched => call.trace.seen[1].timeout[1] > 0

\* What the sources of a proxy give for scheme k to the request of the last
\* urlopen call, by precedence: <<>> when none of them gives one, else <<v>>.
\* The header and the configured option give one when their value is not
\* empty; the environment gives its http proxy for https when it has none.
ProxyByPrecedence(k) ==
    LET hdr == DictGet(call.req.req.headers, "Ytdl-request-proxy")
        own == call.req.req.proxies
    IN IF TruthyStr(hdr) THEN <<hdr>>
       ELSE IF k \in DOMAIN own THEN <<own[k]>>
       ELSE IF TruthyStr(params.proxy) THEN <<params.proxy>>
       ELSE IF k \in DOMAIN environ THEN <<environ[k]>>
       ELSE IF k = "https" /\ "http" \in DOMAIN environ THEN <<environ["http"]>>
       ELSE <<>>

\* C16: for the http and https schemes, the proxy a handler sees in
\* request.proxies is chosen by precedence: the Ytdl-request-proxy header
\* value if there is one, else the request's own proxies entry, else the
\* configured 'proxy' option, else the environment proxy (the "__noproxy__"
\* value of any of them seen as no proxy); a lower source never overrides a
\* higher one.
C16_ProxyPrecedence ==
    Dispatched =>
        \A k \in {"http", "https"} :
            LET want == ProxyByPrecedence(k)
                seen == call.trace.seen[1].proxies
            IN IF want = <<>> THEN k \notin DOMAIN seen
               ELSE /\ k \in DOMAIN seen
                    /\ seen[k] = IF want[1] = Some("__noproxy__") THEN None
                                  ELSE want[1]

\* A request with its own http proxy and no proxy header, sent through a
\* director that has a configured proxy and an environment proxy: the
\* handler saw the request's own for http and the configured one for https.
C16_Witness ==
    /\ Dispatched
    /\ "Ytdl-request-proxy" \notin DOMAIN call.req.req.headers
    /\ call.req.req.proxies = [k \in {"http"} |-> Some("http://own")]
    /\ params.proxy = Some("http://conf")
    /\ DOMAIN environ = {"http", "https"}
    /\ call.trace.seen[1].proxies["http"] = Some("http://own")
    /\ call.trace.seen[1].proxies["https"] = Some("http://conf")

\* ------------------------------------------------------------ cookie jar

\* The most cookies in a jar and the most entry lines in a hand-written
\* cookie file.
MaxCookies == 2
MaxLines == 2

\* time.time(), the same at every save and load; expiry times are 0, one
\* before it and one after it.
Now == 100
Expiries == {0, 50, 200}

\* YoutubeDLCookieJar._ENTRY_LEN
ENTRY_LEN == 7

\* The cookies of the model: cookie i is for domain CookieDomains[i], has
\* the name CookieNames[i], the value CookieValues[i] (None for a cookie
\* without one) and is secure or not as CookieSecure[i].
CookieDomains == <<".a.example", "b.example", ".c.example", "d.example">>
CookieNames == <<"n1", "n2", "n3", "n4">>
CookieValues == <<Some("v"), None, Some("v"), None>>
CookieSecure == <<FALSE, TRUE, TRUE, FALSE>>

\* domain.startswith('.')
StartsWithDot(domain) == domain \in {".a.example", ".c.example"}

\* compat_str of an expiry time, and int(float(...)) back.
compat_str(n) ==
    CASE n = 0 -> "0"
      [] n = 50 -> "50"
      [] n = 200 -> "200"

\* str.isdigit, for the strings of the model.
IsDigit(s) == s \in {"0", "50", "200"}

ToInt(s) ==
    CASE s = "0" -> 0
      [] s = "50" -> 50
      [] s = "200" -> 200

\* A line of the cookie file is the sequence of its tab-separated fields,
\* without the newline. The two lines of _HEADER:
HEADER ==
    << <<"# Netscape HTTP Cookie File">>,
       <<"# This file is generated by yt-dlp.  Do not edit.">> >>

\* line.startswith(_HTTPONLY_PREFIX), and the line without the prefix.
HasHttpOnlyPrefix(line) ==
    line[1] \in {"#HttpOnly_.a.example", "#HttpOnly_b.example"}

StripHttpOnlyPrefix(line) ==
    [line EXCEPT ![1] = CASE @ = "#HttpOnly_.a.example" -> ".a.example"
                          [] @ = "#HttpOnly_b.example" -> "b.example"]

\* line.startswith('#'), for a line without the HttpOnly prefix.
IsComment(line) ==
    line[1] \in {HEADER[1][1], HEADER[2][1], "# comment"}

\* not line.strip()
IsBlank(line) == line = <<"">>

\* Cookie.is_expired(now)
is_expired(cookie, now) ==
    ~IsNone(cookie.expires) /\ cookie.expires[1] <= now

\* The loop at the head of save: a session cookie gets the expiry 0.
SessionToZero(cookie) ==
    IF IsNone(cookie.expires) THEN [cookie EXCEPT !.expires = Some(0)]
    ELSE cookie

\* The two tests of save that leave a cookie out of the file.
SaveSkips(cookie, ignore_discard, ignore_expires, now) ==
    \/ ~ignore_discard /\ cookie.discard
    \/ ~ignore_expires /\ is_expired(cookie, now)

\* The line save writes for a cookie.
SaveLine(cookie) ==
    <<cookie.domain,
      IF StartsWithDot(cookie.domain) THEN "TRUE" ELSE "FALSE",
      cookie.path,
      IF cookie.secure THEN "TRUE" ELSE "FALSE",
      IF ~IsNone(cookie.expires) THEN compat_str(cookie.expires[1]) ELSE "",
      IF IsNone(cookie.value) THEN "" ELSE cookie.name,
      IF IsNone(cookie.value) THEN cookie.name ELSE cookie.value[1]>>

\* YoutubeDLCookieJar.save: the jar and the file after it.
save(cookies, ignore_discard, ignore_expires, now) ==
    LET zeroed == [i \in DOMAIN cookies |-> SessionToZero(cookies[i])]
        kept == SelectSeq(zeroed,
                    LAMBDA c : ~SaveSkips(c, ignore_discard, ignore_expires, now))
    IN [jar |-> zeroed,
        file |-> HEADER \o [i \in DOMAIN kept |-> SaveLine(kept[i])]]

\* prepare_line accepting any expiry field.
InvalidEntry_LengthOnly(line) ==
    IF Len(line) # ENTRY_LEN THEN "invalid length" ELSE ""

\* The LoadError prepare_line raises for an entry line, "" for none.
InvalidEntry(line) ==
    IF Len(line) # ENTRY_LEN THEN "invalid length"
    ELSE IF line[5] # "" /\ ~IsDigit(line[5]) THEN "invalid expires at"
    ELSE ""

\* prepare_line: the line to hand on, without its HttpOnly prefix, or the
\* LoadError.
prepare_line(line) ==
    LET l == IF HasHttpOnlyPrefix(line) THEN StripHttpOnlyPrefix(line) ELSE line
    IN IF IsComment(l) \/ IsBlank(l) THEN [line |-> l, error |-> ""]
       ELSE [line |-> l, error |-> InvalidEntry(l)]

\* The loop of load over the lines of the file: the lines handed on and a
\* warning for each line left out.
RECURSIVE Prepare(_)
Prepare(lines) ==
    IF lines = <<>> THEN [lines |-> <<>>, warnings |-> <<>>]
    ELSE LET p == prepare_line(Head(lines))
             rest == Prepare(Tail(lines))
         IN IF p.error = ""
            THEN [rest EXCEPT !.lines = <<p.line>> \o @]
            ELSE [rest EXCEPT !.warnings = <<<<p.error, Head(lines)>>>> \o @]

\* CookieJar.set_cookie: the cookie takes the place of the one with its
\* domain, path and name, or comes last.
SameKey(c1, c2) ==
    c1.domain = c2.domain /\ c1.path = c2.path /\ c1.name = c2.name

set_cookie(cookies, cookie) ==
    IF \E i \in DOMAIN cookies : SameKey(cookies[i], cookie)
    THEN [i \in DOMAIN cookies |->
             IF SameKey(cookies[i], cookie) THEN cookie ELSE cookies[i]]
    ELSE Append(cookies, cookie)

\* The magic line MozillaCookieJar asks for at the head of the file.
IsMagic(line) == line = HEADER[1]

\* The cookie MozillaCookieJar._really_load makes of an entry line.
LineCookie(line) ==
    [domain |-> line[1],
     path |-> line[3],
     name |-> IF line[6] = "" THEN line[7] ELSE line[6],
     value |-> IF line[6] = "" THEN None ELSE Some(line[7]),
     secure |-> line[4] = "TRUE",
     expires |-> IF line[5] = "" THEN None ELSE Some(ToInt(line[5])),
     discard |-> line[5] = ""]

\* What makes _really_load raise LoadError at an entry line: it has not
\* seven fields, its domain flag contradicts the domain's initial dot, or
\* its expiry is no number.
LineRaises(line) ==
    \/ Len(line) # 7
    \/ (line[2] = "TRUE") # StartsWithDot(line[1])
    \/ line[5] # "" /\ ~IsDigit(line[5])

\* The loop of _really_load over the lines after the magic line: the jar
\* after it and whether it raised LoadError, which ends it.
RECURSIVE ReallyLoadLines(_, _, _, _, _)
ReallyLoadLines(lines, cookies, ignore_discard, ignore_expires, now) ==
    IF lines = <<>> THEN [jar |-> cookies, raised |-> FALSE]
    ELSE LET line == Head(lines)
         IN IF IsComment(line) \/ IsBlank(line) THEN
                ReallyLoadLines(Tail(lines), cookies, ignore_discard,
                                ignore_expires, now)
            ELSE IF LineRaises(line) THEN [jar |-> cookies, raised |-> TRUE]
            ELSE LET c == LineCookie(line)
                 IN IF \/ ~ignore_discard /\ c.discard
                       \/ ~ignore_expires /\ is_expired(c, now)
                    THEN ReallyLoadLines(Tail(lines), cookies, ignore_discard,
                                         ignore_expires, now)
                    ELSE ReallyLoadLines(Tail(lines), set_cookie(cookies, c),
                                         ignore_discard, ignore_expires, now)

\* MozillaCookieJar._really_load
really_load(lines, cookies, ignore_discard, ignore_expires, now) ==
    IF lines = <<>> \/ ~IsMagic(Head(lines))
    THEN [jar |-> cookies, raised |-> TRUE]
    ELSE ReallyLoadLines(Tail(lines), cookies, ignore_discard, ignore_expires, now)

\* The loop at the end of load: a cookie with the expiry 0 becomes a session
\* cookie.
ZeroToSession(cookie) ==
    IF cookie.expires = Some(0)
    THEN [cookie EXCEPT !.expires = None, !.discard = TRUE]
    ELSE cookie

\* YoutubeDLCookieJar.load: the jar after it, the warnings written and
\* whether it raised LoadError.
load(lines, cookies, ignore_discard, ignore_expires, now) ==
    LET p == Prepare(lines)
        r == really_load(p.lines, cookies, ignore_discard, ignore_expires, now)
    IN [jar |-> IF r.raised THEN r.jar
                ELSE [i \in DOMAIN r.jar |-> ZeroToSession(r.jar[i])],
        warnings |-> p.warnings,
        raised |-> r.raised]

\* Cookie i of the model.
Cookie(i, expires, discard) ==
    [domain |-> CookieDomains[i], path |-> "/", name |-> CookieNames[i],
     value |-> CookieValues[i], secure |-> CookieSecure[i],
     expires |-> expires, discard |-> discard]

\* The jars a program has made: cookies 1 to n, each a session cookie or
\* with an expiry, to be discarded or not.
Jars ==
    UNION {[1..n -> ({None} \cup {Some(e) : e \in Expiries}) \X BOOLEAN] :
              n \in 0..MaxCookies}

JarOf(f) == [i \in DOMAIN f |-> Cookie(i, f[i][1], f[i][2])]

\* The lines a hand-written file has at entry i: the entry of cookie i with
\* each expiry field, with the HttpOnly prefix and without a name; an entry
\* of six fields, one with a word for its expiry and one with the wrong
\* domain flag; a comment.
EntryLine(i, domain, flag, expires, name) ==
    <<domain, flag, "/", IF CookieSecure[i] THEN "TRUE" ELSE "FALSE", expires,
      name, IF name = "" THEN CookieNames[i] ELSE "v">>

DomainFlag(i) == IF StartsWithDot(CookieDomains[i]) THEN "TRUE" ELSE "FALSE"

LinesAt(i) ==
    {EntryLine(i, CookieDomains[i], DomainFlag(i), e, CookieNames[i]) :
        e \in {"", "0", "50", "200", "abc"}}
    \cup {EntryLine(i, CookieDomains[i], DomainFlag(i), "200", ""),
          SubSeq(EntryLine(i, CookieDomains[i], DomainFlag(i), "200", CookieNames[i]), 1, 6),
          EntryLine(i, CookieDomains[i], IF DomainFlag(i) = "TRUE" THEN "FALSE" ELSE "TRUE",
                    "200", CookieNames[i]),
          <<"# comment">>}
    \cup (IF i <= 2
          THEN {EntryLine(i, "#HttpOnly_" \o CookieDomains[i], DomainFlag(i), "200",
                          CookieNames[i])}
          ELSE {})

\* The hand-written files: the header and up to MaxLines lines, or one entry
\* and no header.
RECURSIVE LineSeqs(_)
LineSeqs(n) ==
    IF n = 0 THEN {<<>>}
    ELSE LineSeqs(n - 1) \cup
         {Append(s, l) : s \in {t \in LineSeqs(n - 1) : Len(t) = n - 1},
                         l \in LinesAt(n)}

Files ==
    {HEADER \o s : s \in LineSeqs(MaxLines)}
    \cup {<<EntryLine(1, CookieDomains[1], DomainFlag(1), "200", CookieNames[1])>>}

\* No save or load yet.
NoJarOp ==
    [op |-> "none", ignore_discard |-> FALSE, ignore_expires |-> FALSE,
     pre |-> <<>>, warnings |-> <<>>, raised |-> FALSE, saved |-> None]

\* A jar with its cookies and a file with only the header, or an empty jar
\* and a hand-written file.
InitJar ==
    /\ NoDirector /\ NoRequests
    /\ \/ /\ \E f \in Jars : jar = JarOf(f)
          /\ cookiefile = HEADER
       \/ /\ jar = <<>>
          /\ cookiefile \in Files
    /\ jop = NoJarOp

\* jar.save(ignore_discard=..., ignore_expires=...)
Save(ignore_discard, ignore_expires) ==
    /\ LET s == save(jar, ignore_discard, ignore_expires, Now)
       IN /\ jar' = s.jar
          /\ cookiefile' = s.file
    /\ jop' = [NoJarOp EXCEPT !.op = "save", !.ignore_discard = ignore_discard,
                              !.ignore_expires = ignore_expires, !.pre = jar,
                              !.saved = Some([jar |-> jar,
                                              ignore_discard |-> ignore_discard,
                                              ignore_expires |-> ignore_expires])]
    /\ UNCHANGED <<dirVars, reqVars>>

\* jar = YoutubeDLCookieJar(): another jar, empty, for the same file
NewJar ==
    /\ jar' = <<>>
    /\ jop' = [NoJarOp EXCEPT !.op = "new", !.pre = jar, !.saved = jop.saved]
    /\ UNCHANGED <<cookiefile, dirVars, reqVars>>

\* jar.load(ignore_discard=..., ignore_expires=...)
Load(ignore_discard, ignore_expires) ==
    /\ LET l == load(cookiefile, jar, ignore_discard, ignore_expires, Now)
       IN /\ jar' = l.jar
          /\ jop' = [op |-> "load", ignore_discard |-> ignore_discard,
                     ignore_expires |-> ignore_expires, pre |-> jar,
                     warnings |-> l.warnings, raised |-> l.raised,
                     saved |-> jop.saved]
    /\ UNCHANGED <<cookiefile, dirVars, reqVars>>

NextJar ==
    \/ \E ignore_discard, ignore_expires \in BOOLEAN :
          Save(ignore_discard, ignore_expires)
    \/ NewJar
    \/ \E ignore_discard, ignore_expires \in BOOLEAN :
          Load(ignore_discard, ignore_expires)

SpecJar == InitJar /\ [][NextJar]_vars

\* ---------------------------------------------- properties of the cookie jar

\* The file has an entry for the cookie: a line of seven fields with its
\* domain and its name.
Written(cookie) ==
    \E k \in DOMAIN cookiefile :
        /\ Len(cookiefile[k]) = ENTRY_LEN
        /\ cookiefile[k][1] = cookie.domain
        /\ cookiefile[k][3] = cookie.path
        /\ \/ cookiefile[k][6] = cookie.name
           \/ cookiefile[k][6] = "" /\ cookiefile[k][7] = cookie.name

\* What a save with these flags is to keep of a jar: the cookies that are
\* not to be discarded, or all when ignore_discard is set, and of those the
\* ones that have not expired, a cookie without expiry never having, or all
\* when ignore_expires is set.
ToKeep(cookie, ignore_discard, ignore_expires) ==
    /\ ignore_discard \/ ~cookie.discard
    /\ ignore_expires \/ IsNone(cookie.expires) \/ cookie.expires[1] > Now

\* The fields of a cookie that the file holds.
Fields(cookie) ==
    [domain |-> cookie.domain, path |-> cookie.path, secure |-> cookie.secure,
     expires |-> cookie.expires, name |-> cookie.name, value |-> cookie.value]

\* C17: saving a jar and loading the file into an empty jar with the same
\* flags reproduces exactly the cookies of the original jar that the flags
\* do not filter, each with the same domain, path, secure flag, expiry, name
\* and value.
C17_SaveLoadRoundTrip ==
    (/\ jop.op = "load" /\ ~jop.raised /\ jop.pre = <<>>
     /\ ~IsNone(jop.saved)
     /\ jop.saved[1].ignore_discard = jop.ignore_discard
     /\ jop.saved[1].ignore_expires = jop.ignore_expires)
    => {Fields(jar[i]) : i \in DOMAIN jar}
          = {Fields(c) : c \in {d \in Range(jop.saved[1].jar) :
                ToKeep(d, jop.ignore_discard, jop.ignore_expires)}}

\* An entry line of seven fields whose domain flag agrees with its domain
\* and whose expiry is empty or a number.
WellFormedEntry(line) ==
    /\ Len(line) = ENTRY_LEN
    /\ ~IsComment(line) /\ ~IsBlank(line)
    /\ (line[2] = "TRUE") = StartsWithDot(line[1])
    /\ line[5] = "" \/ IsDigit(line[5])

\* C18: a well-formed line of the cookie file whose expiry field is 0 is in
\* the jar after load() as a session cookie (discard set, no expiry), for
\* every combination of ignore_discard and ignore_expires.
C18_ExpiryZeroLoadedAsSession ==
    (jop.op = "load" /\ ~jop.raised) =>
        \A k \in DOMAIN cookiefile :
            LET line == prepare_line(cookiefile[k]).line
            IN (WellFormedEntry(line) /\ line[5] = "0") =>
                  \E i \in DOMAIN jar :
                      /\ jar[i].domain = line[1] /\ jar[i].name = line[6]
                      /\ jar[i].discard /\ IsNone(jar[i].expires)

\* C19: save() writes a cookie to the file if and only if ignore_discard is
\* set or the cookie is not to be discarded, and ignore_expires is set or
\* the cookie has not expired, a cookie without expiry never having.
C19_SaveWritesIff ==
    jop.op = "save" =>
        \A i \in DOMAIN jop.pre :
            Written(jop.pre[i])
               <=> ToKeep(jop.pre[i], jop.ignore_discard, jop.ignore_expires)

\* A malformed line: an entry with a field count other than 7 or with an
\* expiry that is neither empty nor a number.
MalformedEntry(line) ==
    /\ ~IsComment(line) /\ ~IsBlank(line)
    /\ \/ Len(line) # ENTRY_LEN
       \/ line[5] # "" /\ ~IsDigit(line[5])

\* The lines of the file as load sees them, without their HttpOnly prefix.
FileLines == [k \in DOMAIN cookiefile |-> prepare_line(cookiefile[k]).line]

\* The last operation was the load of a file that begins with the header
\* and has, besides comments, only well-formed and malformed entries.
LoadedWithMalformed ==
    /\ jop.op = "load"
    /\ cookiefile # <<>> /\ IsMagic(cookiefile[1])
    /\ \A k \in DOMAIN FileLines :
          \/ IsComment(FileLines[k]) \/ IsBlank(FileLines[k])
          \/ WellFormedEntry(FileLines[k])
          \/ MalformedEntry(FileLines[k])

\* C20: load() never aborts on a malformed line: each is skipped with a
\* warning, load() raises no error, and the jar is what the load of the
\* file without the malformed lines gives, so every well-formed line before
\* or after a malformed one is loaded as it would be without it.
C20_MalformedLinesSkipped ==
    LoadedWithMalformed =>
        /\ ~jop.raised
        /\ [w \in DOMAIN jop.warnings |-> jop.warnings[w][2]]
              = SelectSeq(cookiefile,
                          LAMBDA l : MalformedEntry(prepare_line(l).line))
        /\ jar = load(SelectSeq(cookiefile,
                                LAMBDA l : ~MalformedEntry(prepare_line(l).line)),
                      jop.pre, jop.ignore_discard, jop.ignore_expires, Now).jar

\* An empty jar has loaded a file with a malformed line and, after it, a
\* well-formed one, whose cookie it now holds.
C20_Witness ==
    /\ LoadedWithMalformed /\ jop.pre = <<>>
    /\ Len(cookiefile) = 4
    /\ MalformedEntry(FileLines[3]) /\ WellFormedEntry(FileLines[4])
    /\ jop.warnings # <<>>
    /\ \E i \in DOMAIN jar : jar[i].domain = FileLines[4][1]

\* ------------------------------------ handlers that change the request

\* The Requests given to a director whose handlers may change them.
FallbackArgs ==
    {[isStr |-> FALSE,
      req |-> RequestInit(Url("http", ""), h, p, TRUE, None)] :
        h \in {EmptyDict, [k \in {"X-Test"} |-> "own"]},
        p \in {EmptyDict, [k \in {"http"} |-> Some("http://own")]}}
    \cup {StrArg(Url("http", ""))}

\* The handlers of such a director: all three take http requests.
FallbackHandlers == {"a", "b1", "b2"}

\* What their handle() does: each returns a response or nothing, and may
\* change the Request before it returns nothing.
FallbackBehaviours == {"response", "nothing"} \cup MutatingBehaviours

InitFallback ==
    /\ handlers = <<>>
    /\ \E c \in Configs :
          /\ params = c.params
          /\ environ = c.env
          /\ proxies = get_default_proxies(c.env, c.params.proxy)
    /\ call = NoCall
    /\ NoRequests /\ NoJar

NextFallback ==
    \/ \E handler \in FallbackHandlers : AddHandler(handler)
    \/ \E arg \in FallbackArgs :
          \E beh \in [Capable(handlers, arg) -> FallbackBehaviours] :
              Urlopen(arg, beh)

SpecFallback == InitFallback /\ [][NextFallback]_vars

\* C21: the request is cloned before each handler attempt: every handler
\* whose handle() is called in one urlopen call receives the request as
\* urlopen prepared it, whatever the handlers tried before it did to the
\* Request they were given.
C21_HandlersGetFreshRequest ==
    Dispatched =>
        \A i \in 1..Len(call.trace.received) :
            call.trace.received[i] = call.trace.seen[1]

\* ------------------------------------------------ empty responses, the loop

\* C22: when a handler's handle() returns nothing, urlopen reports a
\* warning naming the handler's class and goes on with the next handler in
\* order that accepts the request; the empty result is never what the call
\* returns, and when every later handler turns the request down or returns
\* nothing too, the call ends with the error of an exhausted handler list.
C22_EmptyResponseFallsThrough ==
    Dispatched =>
        LET t == call.trace
        IN \A h \in Range(t.invoked) :
              Does(h, "nothing") =>
                 /\ <<"request handler returned nothing for response", ClassOf(h)>>
                       \in Range(t.warnings)
                 /\ t.outcome # Returned(h)
                 /\ \A g \in Range(call.pre) :
                       (TriedNextAfter(h, g) /\ Accepts(g)) =>
                          \E i \in 1..(Len(t.invoked) - 1) :
                              t.invoked[i] = h /\ t.invoked[i + 1] = g
                 /\ (\A g \in Range(call.pre) :
                        Pos(g) < Pos(h) =>
                           \/ can_handle(g, t.seen[1]) = "False"
                           \/ Does(g, "nothing"))
                    => t.outcome = Raised("YoutubeDLError", NoSuitableMsg, "")

\* A handler returned nothing and the next one's response was returned.
C22_Witness ==
    /\ Dispatched
    /\ \E h, g \in Range(call.pre) :
          /\ h \in Range(call.trace.invoked) /\ Does(h, "nothing")
          /\ TriedNextAfter(h, g) /\ Does(g, "response")
          /\ call.trace.outcome = Returned(g)
          /\ Len(call.trace.warnings) = 1

\* ------------------------------------------- what the handler is given

\* The headers that only tell urlopen what to do with a request.
SignalingHeaders == {"Youtubedl-no-compression", "Ytdl-request-proxy"}

\* C23: no request given to a handler's handle() has a Youtubedl-no-compression
\* or a Ytdl-request-proxy header, whatever value the header had (the empty
\* one too) and whether the request or the configured http_headers brought
\* it; and a request that came with the no-compression header is given to
\* the handler with compression off.
C23_NoSignalingHeaders ==
    Dispatched =>
        LET came == CaseInsensitiveDict(params.http_headers, call.req.req.headers)
        IN \A i \in 1..Len(call.trace.received) :
              LET r == call.trace.received[i]
              IN /\ DOMAIN r.headers \cap SignalingHeaders = {}
                 /\ "Youtubedl-no-compression" \in DOMAIN came
                       => r.compression = FALSE

\* The proxy of scheme k as urlopen resolved it for the last call's request,
\* before the no-proxy value is looked for: the proxy header's for http and
\* https, else the request's own, else the director's default.
ResolvedProxy(k) ==
    LET hdr == DictGet(call.req.req.headers, "Ytdl-request-proxy")
        own == call.req.req.proxies
    IN IF TruthyStr(hdr) /\ k \in {"http", "https"} THEN hdr
       ELSE IF k \in DOMAIN own THEN own[k]
       ELSE proxies[k]

\* C24: a scheme whose resolved proxy is "__noproxy__" has no proxy (None)
\* in the request the handler sees, no handler sees "__noproxy__" itself,
\* and every other scheme has its resolved proxy.
C24_NoProxySentinel ==
    Dispatched =>
        LET seen == call.trace.seen[1].proxies
        IN /\ DOMAIN seen = DOMAIN call.req.req.proxies \cup DOMAIN proxies
                               \cup (IF TruthyStr(DictGet(call.req.req.headers,
                                                          "Ytdl-request-proxy"))
                                     THEN {"http", "https"} ELSE {})
           /\ \A k \in DOMAIN seen :
                 IF ResolvedProxy(k) = Some("__noproxy__")
                 THEN seen[k] = None
                 ELSE seen[k] = ResolvedProxy(k)
           /\ \A i \in 1..Len(call.trace.received) :
                 \A k \in DOMAIN call.trace.received[i].proxies :
                     call.trace.received[i].proxies[k] # Some("__noproxy__")

\* The request's own http proxy is "__noproxy__" and the configured proxy
\* stands for https: the handler saw None for http and the configured proxy
\* for https.
C24_Witness ==
    /\ Dispatched
    /\ "Ytdl-request-proxy" \notin DOMAIN call.req.req.headers
    /\ call.req.req.proxies = [k \in {"http"} |-> Some("__noproxy__")]
    /\ params.proxy = Some("http://conf")
    /\ call.trace.invoked = <<"b1">>
    /\ call.trace.received[1].proxies =
          [k \in {"http", "https"} |->
              IF k = "http" THEN None ELSE Some("http://conf")]

\* ------------------------------------------------ what save does to a jar

\* The lines of the file that are the entry of the cookie.
EntriesOf(cookie) ==
    {k \in DOMAIN cookiefile :
        /\ Len(cookiefile[k]) = ENTRY_LEN
        /\ cookiefile[k][1] = cookie.domain
        /\ cookiefile[k][3] = cookie.path
        /\ \/ cookiefile[k][6] = cookie.name
           \/ cookiefile[k][6] = "" /\ cookiefile[k][7] = cookie.name}

\* C25: save() writes a cookie that has no expiry with an empty expiry
\* field, not with 0 or another number.
C25_NullExpiryWrittenEmpty ==
    jop.op = "save" =>
        \A i \in DOMAIN jop.pre :
            IsNone(jop.pre[i].expires) =>
                \A k \in EntriesOf(jop.pre[i]) : cookiefile[k][5] = ""

\* C27: save() leaves the jar as it was: every cookie has the expires and
\* the discard it had before the call, and is expired after the call exactly
\* if it was before, whatever ignore_discard and ignore_expires are.
C27_SaveLeavesJar ==
    jop.op = "save" =>
        /\ DOMAIN jar = DOMAIN jop.pre
        /\ \A i \in DOMAIN jop.pre :
              /\ jar[i].expires = jop.pre[i].expires
              /\ jar[i].discard = jop.pre[i].discard
              /\ is_expired(jar[i], Now) <=> is_expired(jop.pre[i], Now)

\* C26: a timeout other than zero that the Request given to urlopen has is
\* the timeout of the request the handler receives; the configured
\* socket_timeout and the default of 20 seconds are used only when the
\* request has no timeout or a timeout of zero.
C26_RequestTimeoutKept ==
    (Dispatched /\ ~call.req.isStr) =>
        LET own == call.req.req.timeout
        IN \A i \in 1..Len(call.trace.received) :
              TruthyNum(own) => call.trace.received[i].timeout = own

\* C29: a urlopen call ends with exactly one outcome, a returned response
\* or a raised error; in one call no handler's can_handle and no handler's
\* handle() is called twice, and handle() is called only on handlers whose
\* SUPPORTED_SCHEMES has the scheme of the request.
C29_OneOutcomeEachHandlerOnce ==
    call.op = "urlopen" =>
        LET t == call.trace
        IN /\ t.outcome.kind \in {"response", "error"}
           /\ t.outcome.kind = "response" => t.outcome.exc = ""
           /\ t.outcome.kind = "error" => t.outcome.exc \in Exceptions
           /\ NoDuplicates(t.checked) /\ NoDuplicates(t.invoked)
           /\ Len(t.checked) <= Len(call.pre)
           /\ Len(t.received) = Len(t.invoked)
           /\ \A i \in 1..Len(t.invoked) :
                 LET s == SUPPORTED_SCHEMES(ClassOf(t.invoked[i]))
                 IN /\ t.invoked[i] \in Range(call.pre)
                    /\ t.invoked[i] \in Range(t.checked)
                    /\ ~IsNone(s)
                    /\ UrlScheme(t.received[i]) \in s[1]

\* A call over three handlers: one turned the request down, one returned
\* nothing and one returned the response.
C29_Witness ==
    /\ call.op = "urlopen"
    /\ Len(call.pre) = 3
    /\ Len(call.trace.checked) = 3
    /\ Len(call.trace.invoked) = 2
    /\ call.trace.outcome.kind = "response"

\* C30: can_handle never raises: a handler whose SUPPORTED_SCHEMES is unset
\* turns every request down, urlopen passes it over without calling its
\* handle(), and the call goes on to the handlers after it, so no call ends
\* with the TypeError of the scheme test.
C30_CanHandleNeverRaises ==
    Dispatched =>
        LET t == call.trace
        IN /\ \A h \in Range(call.pre) :
                 can_handle(h, t.seen[1]) \in {"True", "False"}
           /\ t.outcome.exc # "TypeError"
           /\ \A h \in Range(t.checked) :
                 IsNone(SUPPORTED_SCHEMES(ClassOf(h))) =>
                    /\ h \notin Range(t.invoked)
                    /\ \/ Pos(h) = 1
                       \/ call.pre[Pos(h) - 1] \in Range(t.checked)

\* ------------------------------------------ urlopen on Request objects

\* urlopen without `req = req.copy()`: the object it prepares and hands to
\* the handlers is the caller's.
UrlopenCopy_None(i) == [heap |-> heap, reqs |-> reqs, req |-> i]

\* `req = req.copy()`: the heap and the Request objects after the copy of
\* object i, and the object urlopen goes on with, the new one.
UrlopenCopy(i) ==
    [heap |-> CopyOf(i).heap, reqs |-> CopyOf(i).reqs, req |-> Len(reqs) + 1]

\* `req.proxies = {**(self.proxies or {}), **(req.proxies or {})}`: the
\* dict display makes a new dict, neither the director's nor the Request's.
MergedProxiesRef(director, own, fresh) == fresh

\* What a handler that changes the Request assigns to its data.
HandlerData == Some("handler")

\* The Request urlopen works on, object u.req, once the call whose trace
\* is t is over. self.proxies is a dict object too, put at index director.
\* `req.headers = CaseInsensitiveDict(..)` binds a new dict to the Request,
\* and the deletions of the signalling headers are made in that dict;
\* `req.proxies = {..}` binds another new dict, and the update from
\* Ytdl-request-proxy and the None for '__noproxy__' are written into it;
\* compression and timeout are assigned to the Request. Each handler whose
\* handle() is called gets that same Request object, and what it changes
\* (add_header, an item of proxies, data) it changes there.
UrlopenWorked(u, t, beh) ==
    LET director == Len(u.heap) + 1
        hdrs == director + 1
        prx == MergedProxiesRef(director, u.reqs[u.req].proxies, director + 2)
        left == t.object[1]
        changed == \E h \in Range(t.invoked) : beh[h] \in MutatingBehaviours
        h1 == u.heap \o <<proxies, left.headers, EmptyDict>>
        r1 == [u.reqs[u.req] EXCEPT !.headers = hdrs,
                                    !.proxies = prx,
                                    !.compression = left.compression,
                                    !.timeout = left.timeout]
    IN [heap |-> [h1 EXCEPT ![prx] = left.proxies],
        reqs |-> [u.reqs EXCEPT ![u.req] =
                    IF changed THEN SetData(r1, HandlerData) ELSE r1],
        director |-> director, trace |-> t]

\* The objects after a urlopen call with Request object i whose trace is t:
\* with no handler registered the call raises before it copies anything.
UrlopenTraced(i, t, beh) ==
    IF NoHandlers(handlers) THEN
        [heap |-> Append(heap, proxies), reqs |-> reqs,
         director |-> Len(heap) + 1, trace |-> t]
    ELSE UrlopenWorked(UrlopenCopy(i), t, beh)

\* urlopen(reqs[i]) on the objects.
UrlopenObjects(i, beh) ==
    UrlopenTraced(i, urlopen(handlers, [isStr |-> FALSE, req |-> ValueOf(i)],
                             params, proxies, beh), beh)

\* The urlopen argument that Request object i is.
RequestArg(i) == [isStr |-> FALSE, req |-> ValueOf(i)]

\* manager.urlopen(reqs[i]), each capable handler behaving as beh says. The
\* Request urlopen made for itself and its dicts are not reachable once the
\* call is over; the caller's Requests, their dicts and the director's
\* proxies are as the call left them.
ReqUrlopen(i, beh) ==
    LET w == UrlopenObjects(i, beh)
    IN /\ heap' = SubSeq(w.heap, 1, Len(heap))
       /\ reqs' = SubSeq(w.reqs, 1, Len(reqs))
       /\ proxies' = w.heap[w.director]
       /\ call' = [op |-> "urlopen", arg |-> "", pre |-> handlers,
                   req |-> RequestArg(i), beh |-> beh, trace |-> w.trace]
       /\ UNCHANGED <<handlers, params, environ, jarVars>>

\* The handlers of a director given Request objects: both take http.
CallerHandlers == {"a", "b1"}

\* What their handle() does: a response, a transport error, or a change of
\* the Request followed by nothing.
CallerBehaviours == {"response", "TransportError"} \cup MutatingBehaviours

\* The headers of the caller's Requests: none, or both signalling headers.
CallerHeaders ==
    {EmptyDict,
     [k \in {"Youtubedl-no-compression", "Ytdl-request-proxy"} |->
        IF k = "Ytdl-request-proxy" THEN "http://hdr" ELSE "1"]}

InitCaller ==
    /\ handlers = <<>>
    /\ \E c \in Configs :
          /\ params = c.params
          /\ environ = c.env
          /\ proxies = get_default_proxies(c.env, c.params.proxy)
    /\ call = NoCall
    /\ NoRequests /\ NoJar

\* Handlers registered, Requests made by the caller with data, a proxy
\* entry of '__noproxy__' and a timeout, and given to urlopen.
NextCaller ==
    \/ \E handler \in CallerHandlers : AddHandler(handler)
    \/ \E headers \in CallerHeaders :
          ReqConstruct(Url("http", ""), Some("own"), headers,
                       [k \in {"http"} |-> Some("__noproxy__")], Some(7))
    \/ \E i \in DOMAIN reqs :
          \E beh \in [Capable(handlers, RequestArg(i)) -> CallerBehaviours] :
              ReqUrlopen(i, beh)

SpecCaller == InitCaller /\ [][NextCaller]_vars

\* C28: a urlopen call with a Request object of the caller's leaves that
\* object as it was, its url, data, compression and timeout, the dicts its
\* headers and proxies are and what they hold (the signalling headers too),
\* whether the call returns a response or raises; it leaves every other
\* Request of the caller's, the director's handler list and the director's
\* default proxies as they were.
C28_UrlopenLeavesCaller ==
    [][\A i \in DOMAIN reqs :
          \A beh \in [Capable(handlers, RequestArg(i)) -> CallerBehaviours] :
              ReqUrlopen(i, beh) =>
                 /\ handlers' = handlers
                 /\ proxies' = proxies
                 /\ DOMAIN reqs' = DOMAIN reqs
                 /\ \A j \in DOMAIN reqs :
                       /\ reqs'[j].url = reqs[j].url
                       /\ reqs'[j].data = reqs[j].data
                       /\ reqs'[j].headers = reqs[j].headers
                       /\ reqs'[j].proxies = reqs[j].proxies
                       /\ reqs'[j].compression = reqs[j].compression
                       /\ reqs'[j].timeout = reqs[j].timeout
                       /\ heap'[reqs[j].headers] = heap[reqs[j].headers]
                       /\ heap'[reqs[j].proxies] = heap[reqs[j].proxies]]_vars

\* A urlopen call with a Request of the caller's that has data, both
\* signalling headers, a '__noproxy__' proxy entry and a timeout: one
\* handler changed the Request it got and returned nothing, the next raised
\* a transport error. The object the handlers got ended with other headers,
\* proxies and timeout than the caller's object, which has them as given.
C28_Witness ==
    /\ call.op = "urlopen" /\ ~call.req.isStr
    /\ Len(call.trace.invoked) = 2
    /\ call.beh[call.trace.invoked[1]] \in MutatingBehaviours
    /\ call.trace.outcome.exc = "TransportError"
    /\ SignalingHeaders \cap DOMAIN call.trace.object[1].headers = {}
    /\ "X-Test" \in DOMAIN call.trace.object[1].headers
    /\ call.trace.object[1].proxies # call.req.req.proxies
    /\ call.trace.object[1].timeout # call.req.req.timeout
    /\ \E i \in DOMAIN reqs :
          /\ ValueOf(i) = call.req.req
          /\ reqs[i].data = Some("own")
          /\ SignalingHeaders \subseteq DOMAIN Hdr(i)
          /\ Prx(i) = [k \in {"http"} |-> Some("__noproxy__")]
          /\ reqs[i].timeout = Some(7)

====
